---- MODULE Spec2Model ----
(***************************************************************************)
(* The libnetwork datastore: the Store facade of datastore.go in front of  *)
(* a backing key/value store and an in-process cache.  Callers are         *)
(* concurrent goroutines; every facade operation runs under ds.mu.         *)
(***************************************************************************)
EXTENDS Integers, Sequences, FiniteSets, TLC

(* ------------------------------ bounds --------------------------------- *)
\* concurrent callers of one Store
NumProcs == 2
\* largest version an object may carry when a write is started
MaxVer == 2
\* distinct object contents
NumValues == 2
\* most segments in a key handed to Key
MaxSegs == 2

Procs == 1..NumProcs
Contents == 1..NumValues

(* ------------------------------- keys ---------------------------------- *)
\* rootChain = defaultRootChain = {"docker", "network", "v1.0"}
rootChain ==
  << <<"d","o","c","k","e","r">>, <<"n","e","t","w","o","r","k">>, <<"v","1",".","0">> >>

RECURSIVE WritePartsBare(_, _)
\* faulty variant: the parts written with no separator after them
WritePartsBare(b, parts) ==
  IF parts = <<>> THEN b
  ELSE WritePartsBare(b \o Head(parts), Tail(parts))

RECURSIVE WriteParts(_, _)
\* the inner loop of Key: each part followed by "/"
WriteParts(b, parts) ==
  IF parts = <<>> THEN b
  ELSE WriteParts(b \o Head(parts) \o <<"/">>, Tail(parts))

\* Key(key ...string): the root chain, then the segments
Key(key) == WriteParts(WriteParts(<<>>, rootChain), key)

SegA == <<"a">>
Seg1 == <<"1">>

\* the segment sequences the callers' objects use as Key()
ObjKeys == { <<SegA, Seg1>> }

Seg2 == <<"2">>
SegB == <<"b">>

\* the Key() of the objects of the enumerating callers: two under prefix a,
\* one under the sibling prefix b
EnumKeys == { <<SegA, Seg1>>, <<SegA, Seg2>>, <<SegB, Seg1>> }

\* KVObject.KeyPrefix(): the immediate parent of Key()
KeyPrefix(key) == SubSeq(key, 1, Len(key) - 1)

IsPrefix(s, t) == Len(s) <= Len(t) /\ SubSeq(t, 1, Len(s)) = s

(* ------------------------------ objects -------------------------------- *)
\* a nil KVObject
NilObject == [nil |-> TRUE]

\* a KVObject of the caller's, not yet stored: content 0 is content whose
\* Value() is nil, ctor says whether its type implements KVConstructor
NewObject(k, c, s) ==
  [key |-> k, content |-> c, dbIndex |-> 0, dbExists |-> FALSE, skip |-> s, ctor |-> TRUE]

\* KVObject.Value(): the marshalled object, its identity and its content
Value(o) == <<o.key, o.content>>

\* faulty variant: the nil test of Value() left out
ValueIsNilNever(o) == FALSE

\* PutObjectAtomic: kvObjValue == nil
ValueIsNil(o) == o.content = 0

\* KVObject.SetValue: unmarshal into the object
SetValue(o, bytes) == [o EXCEPT !.key = bytes[1], !.content = bytes[2]]

\* KVConstructor.New(): a zero object of the exemplar's type
New(kvObject) ==
  [key |-> <<>>, content |-> 0, dbIndex |-> 0, dbExists |-> FALSE,
   skip |-> kvObject.skip, ctor |-> TRUE]

\* KVObject.SetIndex: records the index and that the object has been stored
SetIndex(o, i) == [o EXCEPT !.dbIndex = i, !.dbExists = TRUE]

(* ------------------------------- state --------------------------------- *)
VARIABLES
  mu,       \* ds.mu: 0 when free, else the caller holding it
  backend,  \* ds.store: rendered key -> [Value, LastIndex]
  cache,    \* ds.cache: rendered key -> [Value, Index]
  pc,       \* per caller: position in its current facade call
  op,       \* per caller: the facade operation it is in
  obj,      \* per caller: the KVObject it passes (its own instance)
  err,      \* per caller: the error the call returns
  karg,     \* per caller: the key string it passes to GetObject, List or Map
  exemplar, \* per caller: the KVObject it passes to List or Map
  res,      \* per caller: the objects List or Map returned
  snap,     \* history: backend, cache and object when the lock was taken
  hist,     \* history: per rendered key, its last successful put and delete
  lastOp    \* history: the operation that returned last

vars == <<mu, backend, cache, pc, op, obj, err, karg, exemplar, res, snap, hist, lastOp>>

NoSnap == [none |-> TRUE]
NoOp == [none |-> TRUE]
NoHist ==
  [ver |-> 0, content |-> 0, skip |-> FALSE, deleted |-> FALSE, persisted |-> FALSE,
   skipDel |-> FALSE]

Has(f, k) == k \in DOMAIN f
With(f, k, v) == [x \in DOMAIN f \cup {k} |-> IF x = k THEN v ELSE f[x]]
Without(f, k) == [x \in DOMAIN f \ {k} |-> f[x]]
Empty == [x \in {} |-> 0]

Init ==
  /\ mu = 0
  /\ backend = Empty
  /\ cache = Empty
  /\ pc = [p \in Procs |-> "idle"]
  /\ op = [p \in Procs |-> "none"]
  /\ obj = [p \in Procs |-> NilObject]
  /\ err = [p \in Procs |-> "none"]
  /\ karg = [p \in Procs |-> <<>>]
  /\ exemplar = [p \in Procs |-> NilObject]
  /\ res = [p \in Procs |-> {}]
  /\ snap = NoSnap
  /\ hist = [k \in { Key(x) : x \in ObjKeys \cup EnumKeys } |-> NoHist]
  /\ lastOp = NoOp

(* ----------------------- the backing store ----------------------------- *)
\* internal/kvstore, by its contract: Get, Put, Exists, List, AtomicPut and
\* AtomicDelete over versioned pairs; any call may fail on the backend's side
\* store.KVPair
KVPair(k, v, i) == [Key |-> k, Value |-> v, LastIndex |-> i]
NilPair == [nil |-> TRUE]

\* the version the backend gives the next accepted write of key k: versions
\* count the successful writes of the key, from 1
NextIndex(st, k) == IF Has(st, k) THEN st[k].LastIndex + 1 ELSE 1

\* a backend call that fails for a reason of the backend's own
BackendFailure(st) == [err |-> "ErrBackend", store |-> st, pair |-> NilPair]

\* store.AtomicPut(key, value, previous): previous nil means "must not exist"
AtomicPut(st, k, v, previous) ==
  { BackendFailure(st),
    IF previous = NilPair /\ Has(st, k)
      THEN [err |-> "ErrKeyExists", store |-> st, pair |-> NilPair]
    ELSE IF previous # NilPair /\ ~Has(st, k)
      THEN [err |-> "ErrKeyNotFound", store |-> st, pair |-> NilPair]
    ELSE IF previous # NilPair /\ st[k].LastIndex # previous.LastIndex
      THEN [err |-> "ErrKeyModified", store |-> st, pair |-> NilPair]
    ELSE [err |-> "nil",
          store |-> With(st, k, [Value |-> v, LastIndex |-> NextIndex(st, k)]),
          pair |-> KVPair(k, v, NextIndex(st, k))] }

\* store.AtomicDelete(key, previous)
AtomicDelete(st, k, previous) ==
  { BackendFailure(st),
    IF ~Has(st, k)
      THEN [err |-> "ErrKeyNotFound", store |-> st, pair |-> NilPair]
    ELSE IF st[k].LastIndex # previous.LastIndex
      THEN [err |-> "ErrKeyModified", store |-> st, pair |-> NilPair]
    ELSE [err |-> "nil", store |-> Without(st, k), pair |-> NilPair] }

\* store.Exists(key)
StoreExists(st, k) == Has(st, k)

\* store.Put(key, value)
StorePut(st, k, v) ==
  { BackendFailure(st),
    [err |-> "nil",
     store |-> With(st, k, [Value |-> v, LastIndex |-> NextIndex(st, k)]),
     pair |-> NilPair] }

\* store.List(prefix): the pairs whose key starts with prefix
StoreList(st, prefix) ==
  { KVPair(k, st[k].Value, st[k].LastIndex) : k \in { x \in DOMAIN st : IsPrefix(prefix, x) } }

(* ------------------------------ the cache ------------------------------ *)
\* the in-process mirror behind ds.cache, by its contract: a non-skip add or
\* del mirrors a write the backend has accepted, a skip add or del is
\* sequenced by the cache itself
\* cache.add(kvObject, skipPersist)
cacheAdd(c, o, skipPersist) ==
  LET k == Key(o.key)
      cur == IF Has(c, k) THEN c[k].Index ELSE 0
  IN IF ~skipPersist
       THEN [err |-> "nil", obj |-> o,
             cache |-> With(c, k, [Value |-> Value(o), Index |-> o.dbIndex])]
     ELSE IF o.dbIndex # cur
       THEN [err |-> "ErrKeyModified", obj |-> o, cache |-> c]
     ELSE [err |-> "nil", obj |-> SetIndex(o, cur + 1),
           cache |-> With(c, k, [Value |-> Value(o), Index |-> cur + 1])]

\* cache.del(kvObject, skipPersist)
cacheDel(c, o, skipPersist) ==
  LET k == Key(o.key)
  IN IF ~Has(c, k)
       THEN [err |-> "nil", cache |-> c]
     ELSE IF skipPersist /\ c[k].Index # o.dbIndex
       THEN [err |-> "ErrKeyModified", cache |-> c]
     ELSE [err |-> "nil", cache |-> Without(c, k)]

\* cache.get(kvObject)
cacheGet(c, o) ==
  LET k == Key(o.key)
  IN IF Has(c, k)
       THEN [err |-> "nil", obj |-> SetIndex(SetValue(o, c[k].Value), c[k].Index)]
     ELSE [err |-> "ErrKeyNotFound", obj |-> o]

\* cache.list(kvObject): copies of the entries under the exemplar's prefix
cacheList(c, kvObject) ==
  { SetIndex(SetValue(New(kvObject), c[k].Value), c[k].Index) :
      k \in { x \in DOMAIN c : IsPrefix(Key(KeyPrefix(kvObject.key)), x) } }

(* ------------------------------ callers -------------------------------- *)
\* the objects caller p may pass to a write: nil, a new object, or the
\* instance it holds with its content changed
WriteArgs(p) ==
  {NilObject}
    \cup { NewObject(k, c, s) : k \in ObjKeys, c \in Contents, s \in BOOLEAN }
    \cup { NewObject(k, 0, FALSE) : k \in ObjKeys }
    \cup (IF obj[p] = NilObject THEN {}
          ELSE { [obj[p] EXCEPT !.content = c] : c \in Contents })

\* the objects caller p may pass to a read: a new object or the one it holds
ReadArgs(p) ==
  { NewObject(k, 1, s) : k \in ObjKeys, s \in BOOLEAN }
    \cup (IF obj[p] = NilObject THEN {} ELSE {obj[p]})

\* the exemplars caller p may pass to List and Map
Exemplars == { [NewObject(k, 1, FALSE) EXCEPT !.ctor = c] : k \in ObjKeys, c \in BOOLEAN }

(* --------------------------- the Store facade --------------------------- *)
\* faulty variant: a Store built without its cache
HasCacheNot == FALSE

\* newClient: ds.cache = newCache(ds)
HasCache == TRUE

\* versions stay within MaxVer: a write that would pass it is not started
WithinBounds(name, o) ==
  name = "put" /\ o # NilObject => o.dbIndex < MaxVer

\* faulty variant: Lock() that does not wait for the mutex
MutexIgnored == TRUE

\* ds.mu.Lock(): blocks until the mutex is free
MutexFree == mu = 0

\* caller p enters operation name with object o and key string k, and takes
\* the lock
Call(p, name, o, k, e) ==
  /\ pc[p] = "idle"
  /\ MutexFree
  /\ WithinBounds(name, o)
  /\ mu' = p
  /\ pc' = [pc EXCEPT ![p] = name]
  /\ op' = [op EXCEPT ![p] = name]
  /\ obj' = [obj EXCEPT ![p] = o]
  /\ karg' = [karg EXCEPT ![p] = k]
  /\ exemplar' = [exemplar EXCEPT ![p] = e]
  /\ err' = [err EXCEPT ![p] = "none"]
  /\ res' = [res EXCEPT ![p] = {}]
  /\ snap' = [backend |-> backend, cache |-> cache, obj |-> o, storeErr |-> "none"]
  /\ UNCHANGED <<backend, cache, hist, lastOp>>

CallPut(p) == \E o \in WriteArgs(p) : Call(p, "put", o, <<>>, NilObject)
CallDelete(p) == \E o \in WriteArgs(p) : Call(p, "del", o, <<>>, NilObject)
CallGet(p) == \E o \in ReadArgs(p) : Call(p, "get", o, Key(o.key), NilObject)
CallList(p) == \E e \in Exemplars : Call(p, "list", obj[p], Key(KeyPrefix(e.key)), e)
CallMap(p) == \E e \in Exemplars : Call(p, "map", obj[p], Key(KeyPrefix(e.key)), e)

\* return e: the call's result is decided, the deferred Unlock still to run
Finish(p, e) ==
  /\ err' = [err EXCEPT ![p] = e]
  /\ pc' = [pc EXCEPT ![p] = "ret"]

\* faulty variant: the skip test of PutObjectAtomic left out
PutSkipsNever(o) == FALSE

\* PutObjectAtomic: if kvObject.Skip() { goto add_cache }
PutSkips(o) == o.skip

\* faulty variant: a token built whether or not the object Exists()
PreviousAlways(o) == KVPair(Key(o.key), <<>>, o.dbIndex)

\* PutObjectAtomic: the previous-version token
Previous(o) ==
  IF o.dbExists THEN KVPair(Key(o.key), <<>>, o.dbIndex) ELSE NilPair

\* faulty variant: the backend's error returned as it is
StoreErrorRaw(e) == e

\* PutObjectAtomic, DeleteObjectAtomic: the error returned for a backend error
StoreError(e) == IF e = "ErrKeyExists" THEN "ErrKeyModified" ELSE e

\* faulty variant: the backend-assigned version never stamped on the object
StampedNot(o, r) == o

\* faulty variant: the object stamped before the backend's answer is looked at
StampedEager(o, r) ==
  IF r.err # "nil" THEN SetIndex(o, o.dbIndex + 1) ELSE SetIndex(o, r.pair.LastIndex)

\* PutObjectAtomic: the caller's object after the AtomicPut round trip r
Stamped(o, r) == IF r.err # "nil" THEN o ELSE SetIndex(o, r.pair.LastIndex)

\* faulty variant: only skip objects reach the cache
CacheAddSkipOnly(c, o) ==
  IF o.skip THEN cacheAdd(c, o, TRUE) ELSE [err |-> "nil", obj |-> o, cache |-> c]

\* faulty variant: the object's Skip() not handed to the cache
CacheAddMirror(c, o) == cacheAdd(c, o, FALSE)

\* PutObjectAtomic: ds.cache.add(kvObject, kvObject.Skip())
CacheAdd(c, o) == cacheAdd(c, o, o.skip)

\* faulty variant: the token built without the object's index
DeletePreviousZero(o) == KVPair(Key(o.key), <<>>, 0)

\* DeleteObjectAtomic: the previous-version token
DeletePrevious(o) == KVPair(Key(o.key), <<>>, o.dbIndex)

\* faulty variant: the skip test of DeleteObjectAtomic left out
DeleteSkipsNever(o) == FALSE

\* DeleteObjectAtomic: if kvObject.Skip() { goto deleteCache }
DeleteSkips(o) == o.skip

\* DeleteObjectAtomic: ds.cache.del(kvObject, kvObject.Skip())
CacheDel(c, o) == cacheDel(c, o, o.skip)

\* PutObjectAtomic up to add_cache: the checks and the backend round trip
PutStore(p) ==
  /\ pc[p] = "put"
  /\ mu = p
  /\ LET o == obj[p] IN
       IF o = NilObject
         THEN Finish(p, "BadRequest") /\ UNCHANGED <<backend, obj, snap>>
       ELSE IF ValueIsNil(o)
         THEN Finish(p, "BadRequest") /\ UNCHANGED <<backend, obj, snap>>
       ELSE IF PutSkips(o)
         THEN /\ pc' = [pc EXCEPT ![p] = "put_cache"]
              /\ UNCHANGED <<backend, obj, err, snap>>
       ELSE \E r \in AtomicPut(backend, Key(o.key), Value(o), Previous(o)) :
              /\ snap' = [snap EXCEPT !.storeErr = r.err]
              /\ backend' = r.store
              /\ obj' = [obj EXCEPT ![p] = Stamped(o, r)]
              /\ IF r.err # "nil"
                   THEN Finish(p, StoreError(r.err))
                 ELSE pc' = [pc EXCEPT ![p] = "put_cache"] /\ UNCHANGED err
  /\ UNCHANGED <<mu, cache, op, karg, exemplar, res, hist, lastOp>>

\* PutObjectAtomic from add_cache
PutCache(p) ==
  /\ pc[p] = "put_cache"
  /\ mu = p
  /\ IF HasCache
       THEN LET r == CacheAdd(cache, obj[p]) IN
              /\ cache' = r.cache
              /\ obj' = [obj EXCEPT ![p] = r.obj]
              /\ Finish(p, r.err)
     ELSE Finish(p, "nil") /\ UNCHANGED <<cache, obj>>
  /\ UNCHANGED <<mu, backend, op, karg, exemplar, res, snap, hist, lastOp>>

\* faulty variant: the cache cleaned up whether or not AtomicDelete went through
DeleteStoreEager(p) ==
  /\ pc[p] = "del"
  /\ mu = p
  /\ LET o == obj[p] IN
       IF o = NilObject
         THEN Finish(p, "BadRequest") /\ UNCHANGED <<backend, cache, snap>>
       ELSE IF DeleteSkips(o)
         THEN /\ pc' = [pc EXCEPT ![p] = "del_cache"]
              /\ UNCHANGED <<backend, cache, err, snap>>
       ELSE \E r \in AtomicDelete(backend, Key(o.key), DeletePrevious(o)) :
              /\ snap' = [snap EXCEPT !.storeErr = r.err]
              /\ backend' = r.store
              /\ cache' = CacheDel(cache, o).cache
              /\ IF r.err # "nil"
                   THEN Finish(p, StoreError(r.err))
                 ELSE pc' = [pc EXCEPT ![p] = "del_cache"] /\ UNCHANGED err
  /\ UNCHANGED <<mu, op, obj, karg, exemplar, res, hist, lastOp>>

\* DeleteObjectAtomic up to deleteCache
DeleteStore(p) ==
  /\ pc[p] = "del"
  /\ mu = p
  /\ LET o == obj[p] IN
       IF o = NilObject
         THEN Finish(p, "BadRequest") /\ UNCHANGED <<backend, cache, snap>>
       ELSE IF DeleteSkips(o)
         THEN /\ pc' = [pc EXCEPT ![p] = "del_cache"]
              /\ UNCHANGED <<backend, cache, err, snap>>
       ELSE \E r \in AtomicDelete(backend, Key(o.key), DeletePrevious(o)) :
              /\ snap' = [snap EXCEPT !.storeErr = r.err]
              /\ backend' = r.store
              /\ cache' = cache
              /\ IF r.err # "nil"
                   THEN Finish(p, StoreError(r.err))
                 ELSE pc' = [pc EXCEPT ![p] = "del_cache"] /\ UNCHANGED err
  /\ UNCHANGED <<mu, op, obj, karg, exemplar, res, hist, lastOp>>

\* DeleteObjectAtomic from deleteCache
DeleteCache(p) ==
  /\ pc[p] = "del_cache"
  /\ mu = p
  /\ IF HasCache
       THEN LET r == CacheDel(cache, obj[p]) IN
              /\ cache' = r.cache
              /\ Finish(p, r.err)
     ELSE Finish(p, "nil") /\ UNCHANGED cache
  /\ UNCHANGED <<mu, backend, op, obj, karg, exemplar, res, snap, hist, lastOp>>

\* store.Get(key)
StoreGet(st, k) ==
  { BackendFailure(st),
    IF Has(st, k)
      THEN [err |-> "nil", store |-> st,
            pair |-> KVPair(k, st[k].Value, st[k].LastIndex)]
    ELSE [err |-> "ErrKeyNotFound", store |-> st, pair |-> NilPair] }

\* GetObject
GetObject(p) ==
  /\ pc[p] = "get"
  /\ mu = p
  /\ IF HasCache
       THEN LET r == cacheGet(cache, obj[p]) IN
              /\ obj' = [obj EXCEPT ![p] = r.obj]
              /\ Finish(p, r.err)
              /\ UNCHANGED snap
     ELSE \E r \in StoreGet(backend, karg[p]) :
            /\ snap' = [snap EXCEPT !.storeErr = r.err]
            /\ Finish(p, r.err)
            /\ obj' = [obj EXCEPT ![p] =
                 IF r.err = "nil"
                   THEN SetIndex(SetValue(obj[p], r.pair.Value), r.pair.LastIndex)
                 ELSE obj[p]]
  /\ UNCHANGED <<mu, backend, cache, op, karg, exemplar, res, hist, lastOp>>

\* faulty variant: the parent key looked up but never written
ensureParentNot(st, parent) ==
  { BackendFailure(st), [err |-> "nil", store |-> st, pair |-> NilPair] }

\* ensureParent: the outcomes of making sure the parent key exists
ensureParent(st, parent) ==
  { BackendFailure(st) }
    \cup (IF StoreExists(st, parent)
            THEN { [err |-> "nil", store |-> st, pair |-> NilPair] }
          ELSE StorePut(st, parent, <<>>))

\* faulty variant: the KVConstructor assertion left out
HasConstructorAlways(kvObject) == TRUE

\* iterateKVPairsFromStore: ctor, ok := kvObject.(KVConstructor)
HasConstructor(kvObject) == kvObject.ctor

\* iterateKVPairsFromStore: the outcomes, with the callback's (key, object) pairs
iterateKVPairsFromStore(st, k, kvObject) ==
  IF ~HasConstructor(kvObject)
    THEN { [err |-> "ErrNoConstructor", store |-> st, pairs |-> {}] }
  ELSE UNION {
    IF e.err # "nil"
      THEN { [err |-> e.err, store |-> e.store, pairs |-> {}] }
    ELSE { [err |-> "ErrBackend", store |-> e.store, pairs |-> {}],
           IF StoreList(e.store, k) = {}
             THEN [err |-> "ErrKeyNotFound", store |-> e.store, pairs |-> {}]
           ELSE [err |-> "nil", store |-> e.store,
                 pairs |-> { <<kv.Key, SetIndex(SetValue(New(kvObject), kv.Value), kv.LastIndex)>> :
                             kv \in { x \in StoreList(e.store, k) : Len(x.Value) # 0 } }] }
    : e \in ensureParent(st, k) }

\* List
List(p) ==
  /\ pc[p] = "list"
  /\ mu = p
  /\ IF HasCache
       THEN /\ IF exemplar[p].ctor
                 THEN res' = [res EXCEPT ![p] = cacheList(cache, exemplar[p])] /\ Finish(p, "nil")
               ELSE res' = [res EXCEPT ![p] = {}] /\ Finish(p, "ErrNoConstructor")
            /\ UNCHANGED <<backend, snap>>
     ELSE \E r \in iterateKVPairsFromStore(backend, karg[p], exemplar[p]) :
            /\ snap' = [snap EXCEPT !.storeErr = r.err]
            /\ backend' = r.store
            /\ res' = [res EXCEPT ![p] = { kv[2] : kv \in r.pairs }]
            /\ Finish(p, r.err)
  /\ UNCHANGED <<mu, cache, op, obj, karg, exemplar, hist, lastOp>>

RECURSIVE TrimLeft(_), TrimRight(_)
TrimLeft(k) == IF k # <<>> /\ Head(k) = "/" THEN TrimLeft(Tail(k)) ELSE k
TrimRight(k) ==
  IF k # <<>> /\ k[Len(k)] = "/" THEN TrimRight(SubSeq(k, 1, Len(k) - 1)) ELSE k

\* faulty variant: the key handed to the callback stored as it is
TrimNot(k) == k

\* strings.Trim(key, "/")
Trim(k) == TrimRight(TrimLeft(k))

\* faulty variant: Map served from the cache like List
MapCached(p) ==
  /\ pc[p] = "map"
  /\ mu = p
  /\ res' = [res EXCEPT ![p] =
       { <<Trim(Key(o.key)), o>> : o \in cacheList(cache, exemplar[p]) }]
  /\ Finish(p, IF exemplar[p].ctor THEN "nil" ELSE "ErrNoConstructor")
  /\ UNCHANGED <<mu, backend, cache, op, obj, karg, exemplar, snap, hist, lastOp>>

\* Map
Map(p) ==
  /\ pc[p] = "map"
  /\ mu = p
  /\ \E r \in iterateKVPairsFromStore(backend, karg[p], exemplar[p]) :
       /\ snap' = [snap EXCEPT !.storeErr = IF exemplar[p].ctor THEN r.err ELSE "none"]
       /\ backend' = r.store
       /\ res' = [res EXCEPT ![p] = { <<Trim(kv[1]), kv[2]>> : kv \in r.pairs }]
       /\ Finish(p, r.err)
  /\ UNCHANGED <<mu, cache, op, obj, karg, exemplar, hist, lastOp>>

\* history: what a returning call adds to the record of its key
Record(p) ==
  IF op[p] \in {"put", "del"} /\ err[p] = "nil"
    THEN LET k == Key(obj[p].key) IN
      [hist EXCEPT ![k] =
         IF op[p] = "put"
           THEN [ver |-> obj[p].dbIndex, content |-> obj[p].content,
                 skip |-> obj[p].skip, deleted |-> FALSE,
                 persisted |-> @.persisted \/ ~obj[p].skip,
                 skipDel |-> @.skipDel /\ obj[p].skip]
         ELSE [@ EXCEPT !.content = 0, !.deleted = TRUE, !.skipDel = @ \/ obj[p].skip]]
  ELSE hist

\* defer ds.mu.Unlock(): the call returns
Return(p) ==
  /\ pc[p] = "ret"
  /\ mu = p
  /\ mu' = 0
  /\ pc' = [pc EXCEPT ![p] = "idle"]
  /\ snap' = NoSnap
  /\ hist' = Record(p)
  /\ lastOp' = IF op[p] = "put" /\ err[p] = "nil" THEN [put |-> obj[p]] ELSE NoOp
  /\ op' = [op EXCEPT ![p] = "none"]
  /\ err' = [err EXCEPT ![p] = "none"]
  /\ karg' = [karg EXCEPT ![p] = <<>>]
  /\ exemplar' = [exemplar EXCEPT ![p] = NilObject]
  /\ res' = [res EXCEPT ![p] = {}]
  /\ UNCHANGED <<backend, cache, obj>>

Next ==
  \E p \in Procs :
    \/ CallPut(p)
    \/ CallDelete(p)
    \/ CallGet(p)
    \/ CallList(p)
    \/ CallMap(p)
    \/ PutStore(p)
    \/ PutCache(p)
    \/ DeleteStore(p)
    \/ DeleteCache(p)
    \/ GetObject(p)
    \/ List(p)
    \/ Map(p)
    \/ Return(p)

Spec == Init /\ [][Next]_vars

(* ------------------------ enumerating callers --------------------------- *)
\* a caller that stores new objects under several prefixes and enumerates them
EnumProcs == {1}

\* the objects it passes to PutObjectAtomic: new ones, persisted or skip
EnumWriteArgs == { NewObject(k, c, s) : k \in EnumKeys, c \in Contents, s \in BOOLEAN }

\* the key strings it passes to List and Map: the rendered prefixes
EnumPrefixes == { Key(KeyPrefix(k)) : k \in EnumKeys }

\* the exemplars it passes to List and Map, one per prefix, with and without
\* KVConstructor
EnumExemplars ==
  { [NewObject(k, 1, FALSE) EXCEPT !.ctor = c] :
      k \in { <<SegA, Seg1>>, <<SegB, Seg1>> }, c \in BOOLEAN }

\* the objects it passes to GetObject: new ones
EnumReadArgs == { NewObject(k, 1, s) : k \in EnumKeys, s \in BOOLEAN }

EnumCallPut(p) == \E o \in EnumWriteArgs : Call(p, "put", o, <<>>, NilObject)
\* GetObject(key, o): the key string is the caller's choice
EnumCallGet(p) ==
  \E o \in EnumReadArgs, k \in EnumKeys : Call(p, "get", o, Key(k), NilObject)
EnumCallList(p) ==
  \E e \in EnumExemplars, k \in EnumPrefixes : Call(p, "list", obj[p], k, e)
EnumCallMap(p) ==
  \E e \in EnumExemplars, k \in EnumPrefixes : Call(p, "map", obj[p], k, e)

EnumNext ==
  \E p \in EnumProcs :
    \/ EnumCallPut(p)
    \/ EnumCallGet(p)
    \/ EnumCallList(p)
    \/ EnumCallMap(p)
    \/ PutStore(p)
    \/ PutCache(p)
    \/ GetObject(p)
    \/ List(p)
    \/ Map(p)
    \/ Return(p)

SpecEnum == Init /\ [][EnumNext]_vars

(* --------------------------- rendering keys ----------------------------- *)
\* the segments handed to Key: plain ones, an empty one, and ones holding the
\* separator, since Key takes any string
KeySegments == { <<>>, <<"a">>, <<"b">>, <<"/">>, <<"a", "/", "b">> }

\* the segment sequences handed to Key
KeySeqs == UNION { [1..n -> KeySegments] : n \in 0..MaxSegs }

\* two callers, each rendering the key of the object it holds
KeyProcs == {1, 2}

KeyInit ==
  /\ mu = 0
  /\ backend = Empty
  /\ cache = Empty
  /\ pc = [p \in Procs |-> "idle"]
  /\ op = [p \in Procs |-> "none"]
  /\ \E s, t \in KeySeqs :
       obj = [p \in Procs |->
                IF p = 1 THEN NewObject(s, 1, FALSE)
                ELSE IF p = 2 THEN NewObject(t, 1, FALSE)
                ELSE NilObject]
  /\ err = [p \in Procs |-> "none"]
  /\ karg = [p \in Procs |-> <<>>]
  /\ exemplar = [p \in Procs |-> NilObject]
  /\ res = [p \in Procs |-> {}]
  /\ snap = NoSnap
  /\ hist = [k \in {} |-> NoHist]
  /\ lastOp = NoOp

\* caller p renders Key(o.Key()...), as it does for the key argument of
\* GetObject
Render(p) ==
  /\ pc[p] = "idle"
  /\ karg' = [karg EXCEPT ![p] = Key(obj[p].key)]
  /\ pc' = [pc EXCEPT ![p] = "rendered"]
  /\ UNCHANGED <<mu, backend, cache, op, obj, err, exemplar, res, snap, hist, lastOp>>

KeyNext == \E p \in KeyProcs : Render(p)

SpecKey == KeyInit /\ [][KeyNext]_vars

(* ------------------------------ properties ----------------------------- *)
\* caller p is about to return from operation name / return from it with no error
Returning(p, name) == pc[p] = "ret" /\ op[p] = name
Succeeded(p, name) == Returning(p, name) /\ err[p] = "nil"

\* the record of the key of the object caller p passed
HistOf(p) == hist[Key(obj[p].key)]

\* C1 as stated: the version a successful PutObjectAtomic stamps on the object
\* is strictly greater than the version the previous successful PutObjectAtomic
\* on the same key stamped, whatever happened in between and whatever the skip
\* flags.
C1_AnyPutIncreases ==
  \A p \in Procs : Succeeded(p, "put") => obj[p].dbIndex > HistOf(p).ver

\* C1 amended: the version a successful PutObjectAtomic stamps is at least 1
\* and strictly greater than the one the previous successful PutObjectAtomic
\* on the key stamped, provided no DeleteObjectAtomic on the key succeeded in
\* between and the put is not a non-skip put following a skip put.
C1_MonotonicVersion ==
  \A p \in Procs :
    Succeeded(p, "put") =>
      /\ obj[p].dbIndex >= 1
      /\ (~HistOf(p).deleted /\ ~(HistOf(p).skip /\ ~obj[p].skip)) =>
           obj[p].dbIndex > HistOf(p).ver

\* C1 witness: a second successful put on a key stamps version 2 after 1, for
\* a skip object, with no delete in between
C1_Witness ==
  \E p \in Procs :
    /\ Succeeded(p, "put")
    /\ obj[p].skip
    /\ HistOf(p).ver = 1 /\ ~HistOf(p).deleted /\ HistOf(p).skip
    /\ obj[p].dbIndex = 2

\* the authority for an object's key: the cache for a skip object, the
\* backend otherwise; its version of the key, 0 when it does not hold the key
AuthorityHas(b, c, o) == IF o.skip THEN Has(c, Key(o.key)) ELSE Has(b, Key(o.key))
AuthorityVersion(b, c, o) ==
  IF ~AuthorityHas(b, c, o) THEN 0
  ELSE IF o.skip THEN c[Key(o.key)].Index ELSE b[Key(o.key)].LastIndex
AuthorityEntry(b, c, o) == IF o.skip THEN c[Key(o.key)] ELSE b[Key(o.key)]

\* caller p is returning from a put or delete of a well-formed object
WriteReturning(p) ==
  /\ pc[p] = "ret"
  /\ op[p] \in {"put", "del"}
  /\ snap.obj # NilObject
  /\ op[p] = "put" => ~ValueIsNil(snap.obj)

\* the object p passed carried a version other than the one its authority held
Stale(p) ==
  /\ AuthorityHas(snap.backend, snap.cache, snap.obj)
  /\ AuthorityVersion(snap.backend, snap.cache, snap.obj) # snap.obj.dbIndex

\* C2: a PutObjectAtomic or DeleteObjectAtomic whose object carries a version
\* other than the one the authority of its key holds (the backend for a
\* non-skip object, the cache for a skip object) leaves the authority's value
\* and version of the key as they were and, unless the backend round trip
\* itself failed, returns ErrKeyModified.
C2_StaleWriteRejected ==
  \A p \in Procs :
    (WriteReturning(p) /\ Stale(p)) =>
      /\ AuthorityHas(backend, cache, snap.obj)
      /\ AuthorityEntry(backend, cache, snap.obj)
           = AuthorityEntry(snap.backend, snap.cache, snap.obj)
      /\ snap.storeErr # "ErrBackend" => err[p] = "ErrKeyModified"

\* C2 witness: a non-skip delete carrying version 1 of a key another writer
\* has advanced to version 2 returns ErrKeyModified
C2_Witness ==
  \E p \in Procs :
    /\ WriteReturning(p) /\ op[p] = "del" /\ ~snap.obj.skip
    /\ snap.obj.dbExists /\ snap.obj.dbIndex = 1
    /\ AuthorityVersion(snap.backend, snap.cache, snap.obj) = 2
    /\ err[p] = "ErrKeyModified"

\* after a successful non-skip put the cache and the backend hold the key at
\* the same version
EqualAfterPut ==
  \A p \in Procs :
    (Succeeded(p, "put") /\ ~obj[p].skip) =>
      /\ Has(cache, Key(obj[p].key)) /\ Has(backend, Key(obj[p].key))
      /\ cache[Key(obj[p].key)].Index = backend[Key(obj[p].key)].LastIndex

\* C3 as stated: between operations, every key held by both the cache and the
\* backend has a cache version at least the backend's, and the two are equal
\* when a successful non-skip put returns.
C3_CacheNeverBehind ==
  /\ mu = 0 =>
       \A k \in DOMAIN backend \cap DOMAIN cache : cache[k].Index >= backend[k].LastIndex
  /\ EqualAfterPut

\* C3 amended: between operations, every key held by both the cache and the
\* backend on which no skip DeleteObjectAtomic has succeeded since the last
\* successful non-skip PutObjectAtomic has a cache version at least the
\* backend's, and the two are equal when a successful non-skip put returns.
C3_Coherence ==
  /\ mu = 0 =>
       \A k \in DOMAIN backend \cap DOMAIN cache :
         ~hist[k].skipDel => cache[k].Index >= backend[k].LastIndex
  /\ EqualAfterPut

\* C3 witness: a successful non-skip put returns with the key at version 2 in
\* both the cache and the backend
C3_Witness ==
  \E p \in Procs :
    /\ Succeeded(p, "put") /\ ~obj[p].skip
    /\ ~HistOf(p).skipDel
    /\ cache[Key(obj[p].key)].Index = 2
    /\ backend[Key(obj[p].key)].LastIndex = 2

\* the operation that returned last was a successful put, with skip flag s, of
\* the key of the object o
JustPut(o, s) ==
  /\ lastOp # NoOp
  /\ lastOp.put.skip = s
  /\ lastOp.put.key = o.key

\* caller p's object holds what the last put wrote
ReadsLastPut(p) ==
  /\ err[p] = "nil"
  /\ obj[p].content = lastOp.put.content
  /\ obj[p].dbIndex = lastOp.put.dbIndex
  /\ obj[p].dbExists

\* C4: a GetObject that is the next operation after a successful non-skip
\* PutObjectAtomic of the same key succeeds and leaves in its object the
\* content and the version that put wrote.
C4_ReadYourWrite ==
  \A p \in Procs :
    (Returning(p, "get") /\ JustPut(snap.obj, FALSE)) => ReadsLastPut(p)

\* C4 witness: a get right after a non-skip put of content 2 at version 2, by
\* a caller whose object held something else
C4_Witness ==
  \E p \in Procs :
    /\ Returning(p, "get") /\ JustPut(snap.obj, FALSE)
    /\ lastOp.put.content = 2 /\ lastOp.put.dbIndex = 2
    /\ snap.obj.content = 1 /\ snap.obj.dbIndex = 0
    /\ obj[p].content = 2 /\ obj[p].dbIndex = 2

\* C5: a PutObjectAtomic or DeleteObjectAtomic of a skip object makes no
\* backend call and leaves the backend as it was; between operations the
\* backend holds no object key that no non-skip put ever wrote; and a
\* GetObject or a List that is the next operation after a successful skip put
\* returns the object as written.
C5_SkipIsolation ==
  /\ \A p \in Procs :
       (pc[p] # "idle" /\ op[p] \in {"put", "del"} /\ snap.obj # NilObject) =>
         (snap.obj.skip => backend = snap.backend /\ snap.storeErr = "none")
  /\ mu = 0 => \A k \in DOMAIN hist : Has(backend, k) => hist[k].persisted
  /\ \A p \in Procs :
       (Returning(p, "get") /\ JustPut(snap.obj, TRUE)) => ReadsLastPut(p)
  /\ \A p \in Procs :
       (Returning(p, "list") /\ exemplar[p].ctor /\ JustPut(exemplar[p], TRUE)) =>
         /\ err[p] = "nil"
         /\ \E r \in res[p] :
              /\ r.key = lastOp.put.key
              /\ r.content = lastOp.put.content
              /\ r.dbIndex = lastOp.put.dbIndex

\* C5 witness: a skip put has returned with the backend empty and the next
\* operation, a List, returns the object
C5_Witness ==
  \E p \in Procs :
    /\ Returning(p, "list") /\ exemplar[p].ctor /\ JustPut(exemplar[p], TRUE)
    /\ DOMAIN backend = {}
    /\ hist[Key(lastOp.put.key)].ver = 2
    /\ Cardinality(res[p]) = 1

\* C6: a PutObjectAtomic or DeleteObjectAtomic that returns an error leaves
\* the cache as it was when the call began, and the backend too.
C6_FailedWriteKeepsCache ==
  \A p \in Procs :
    (pc[p] = "ret" /\ op[p] \in {"put", "del"} /\ err[p] # "nil") =>
      (cache = snap.cache /\ backend = snap.backend)

\* C6 witness: a non-skip delete fails in the backend while the cache holds
\* the key
C6_Witness ==
  \E p \in Procs :
    /\ WriteReturning(p) /\ op[p] = "del" /\ ~snap.obj.skip
    /\ err[p] = "ErrBackend"
    /\ Has(cache, Key(snap.obj.key))

\* C7: a PutObjectAtomic or DeleteObjectAtomic that returns an error leaves
\* the object's Index() and Exists() as they were when the call began.
C7_FailedWriteKeepsIndex ==
  \A p \in Procs :
    (pc[p] = "ret" /\ op[p] \in {"put", "del"} /\ err[p] # "nil" /\ obj[p] # NilObject) =>
      /\ obj[p].dbIndex = snap.obj.dbIndex
      /\ obj[p].dbExists = snap.obj.dbExists

\* C7 witness: a non-skip put of a stored object fails on a version conflict
C7_Witness ==
  \E p \in Procs :
    /\ WriteReturning(p) /\ op[p] = "put" /\ ~snap.obj.skip
    /\ err[p] = "ErrKeyModified"
    /\ snap.obj.dbIndex = 1 /\ obj[p].dbIndex = 1

\* C8: at most one caller is inside a facade operation, that caller holds the
\* mutex from its entry to its return, and while a put or delete stands
\* between its backend write and its cache update no other caller is inside
\* an operation.
C8_MutualExclusion ==
  /\ Cardinality({ p \in Procs : pc[p] # "idle" }) <= 1
  /\ \A p \in Procs : pc[p] # "idle" <=> mu = p
  /\ \A p, q \in Procs :
       (p # q /\ pc[p] \in {"put_cache", "del_cache"}) => pc[q] = "idle"

\* C8 witness: a non-skip put stands between its backend write and its cache
\* update, holding the mutex
C8_Witness ==
  \E p \in Procs :
    /\ pc[p] = "put_cache" /\ mu = p
    /\ ~obj[p].skip
    /\ backend # snap.backend /\ cache = snap.cache

\* C9: (a) a put of a new object on a key neither the backend nor the cache
\* holds succeeds and sets Index() to 1; (b) a put of the object at index 1 on
\* the key at version 1 succeeds and sets Index() to 2; (c) a delete with a
\* copy at index 1 of the key at version 2 returns ErrKeyModified and the key
\* stays stored; (d) a delete with the copy at index 2 succeeds; (e) every
\* GetObject on a key whose last successful write was a delete returns
\* ErrKeyNotFound.  Success and ErrKeyModified are those of a call whose
\* backend round trip did not itself fail.
C9_Lifecycle ==
  \A p \in Procs :
    /\ (WriteReturning(p) /\ snap.storeErr # "ErrBackend") =>
         LET v == AuthorityVersion(snap.backend, snap.cache, snap.obj) IN
           /\ (op[p] = "put" /\ ~snap.obj.dbExists
                 /\ ~Has(snap.backend, Key(snap.obj.key))
                 /\ ~Has(snap.cache, Key(snap.obj.key))) =>
                (err[p] = "nil" /\ obj[p].dbIndex = 1)
           /\ (op[p] = "put" /\ snap.obj.dbExists /\ snap.obj.dbIndex = 1 /\ v = 1) =>
                (err[p] = "nil" /\ obj[p].dbIndex = 2)
           /\ (op[p] = "del" /\ snap.obj.dbIndex = 1 /\ v = 2) =>
                (err[p] = "ErrKeyModified" /\ backend = snap.backend /\ cache = snap.cache)
           /\ (op[p] = "del" /\ snap.obj.dbIndex = 2 /\ v = 2) => err[p] = "nil"
    /\ (Returning(p, "get") /\ hist[Key(snap.obj.key)].deleted) =>
         err[p] = "ErrKeyNotFound"

\* C9 witness: a GetObject returns ErrKeyNotFound for a key that was put
\* twice, up to version 2, and then deleted
C9_Witness ==
  \E p \in Procs :
    /\ Returning(p, "get")
    /\ hist[Key(snap.obj.key)].deleted
    /\ hist[Key(snap.obj.key)].ver = 2
    /\ ~hist[Key(snap.obj.key)].skip
    /\ ~Has(backend, Key(snap.obj.key))
    /\ err[p] = "ErrKeyNotFound"

\* C10: a DeleteObjectAtomic of an object whose key the cache does not hold,
\* whose backend step was skipped or succeeded, returns no error and leaves
\* the cache unchanged; a delete of a skip object on a key whose last
\* successful write was a delete succeeds again.
C10_IdempotentDelete ==
  \A p \in Procs :
    (WriteReturning(p) /\ op[p] = "del") =>
      /\ (snap.storeErr \in {"none", "nil"} /\ ~Has(snap.cache, Key(snap.obj.key))) =>
           (err[p] = "nil" /\ cache = snap.cache)
      /\ (snap.obj.skip /\ hist[Key(snap.obj.key)].deleted) => err[p] = "nil"

\* C10 witness: a skip delete repeated after a successful delete succeeds
C10_Witness ==
  \E p \in Procs :
    /\ Succeeded(p, "del") /\ snap.obj.skip
    /\ hist[Key(snap.obj.key)].deleted /\ hist[Key(snap.obj.key)].skip
    /\ ~Has(snap.cache, Key(snap.obj.key))

\* caller p is inside a put or delete whose input is invalid: no object, or
\* for a put an object whose Value() is nil
InvalidInput(p) ==
  /\ pc[p] # "idle"
  /\ op[p] \in {"put", "del"}
  /\ \/ snap.obj = NilObject
     \/ op[p] = "put" /\ snap.obj.content = 0

\* C11: a PutObjectAtomic whose object is nil or has a nil Value(), and a
\* DeleteObjectAtomic whose object is nil, returns BadRequest; at no point of
\* the call has the backend been called, and the backend, the cache and the
\* object (its version included) are as they were when the call began.
C11_InvalidInputRejected ==
  \A p \in Procs :
    InvalidInput(p) =>
      /\ pc[p] \in {"put", "del", "ret"}
      /\ pc[p] = "ret" => err[p] = "BadRequest"
      /\ snap.storeErr = "none"
      /\ backend = snap.backend /\ cache = snap.cache
      /\ obj[p] = snap.obj

\* C11 witness: a put of an object whose Value() is nil has returned
\* BadRequest while the backend and the cache hold the object's key
C11_Witness ==
  \E p \in Procs :
    /\ Returning(p, "put") /\ snap.obj # NilObject /\ snap.obj.content = 0
    /\ err[p] = "BadRequest"
    /\ Has(backend, Key(snap.obj.key)) /\ Has(cache, Key(snap.obj.key))

\* what an enumeration returns of an object: its key, content and version
View(o) == [key |-> o.key, content |-> o.content, dbIndex |-> o.dbIndex]

\* the objects put under the rendered prefix P and not deleted since, each
\* with the content and the version its last successful put gave it
PutUnder(P) ==
  { [key |-> k, content |-> hist[Key(k)].content, dbIndex |-> hist[Key(k)].ver] :
      k \in { x \in ObjKeys \cup EnumKeys :
                /\ IsPrefix(P, Key(x))
                /\ hist[Key(x)].ver # 0
                /\ ~hist[Key(x)].deleted } }

\* caller p's List returned exactly the objects put under P
ListIsExact(p, P) == { View(r) : r \in res[p] } = PutUnder(P)

RECURSIVE JoinParts(_)
\* the parts with one separator between each two
JoinParts(parts) ==
  IF Len(parts) = 1 THEN Head(parts)
  ELSE Head(parts) \o <<"/">> \o JoinParts(Tail(parts))

\* the path of an object's key with no leading and no trailing separator
TrimmedPath(key) == JoinParts(rootChain \o key)

\* caller p's Map returned exactly the objects put under P, each under its
\* trimmed path
MapIsExact(p, P) ==
  { <<kv[1], View(kv[2])>> : kv \in res[p] } = { <<TrimmedPath(o.key), o>> : o \in PutUnder(P) }

\* every key under P was last written by a non-skip operation
PersistedUnder(P) ==
  \A k \in DOMAIN hist : IsPrefix(P, k) => ~hist[k].skip /\ ~hist[k].skipDel

C13_NoConstructorFails ==
  /\ \A p \in Procs :
       (pc[p] = "ret" /\ op[p] \in {"list", "map"} /\ ~exemplar[p].ctor) =>
         /\ err[p] = "ErrNoConstructor"
         /\ res[p] = {}
         /\ snap.storeErr = "none"
         /\ backend = snap.backend /\ cache = snap.cache
         /\ Has(backend, karg[p]) <=> Has(snap.backend, karg[p])
  /\ \A e \in EnumExemplars, k \in EnumPrefixes :
       ~e.ctor =>
         \A r \in iterateKVPairsFromStore(backend, k, e) :
           r.err = "ErrNoConstructor" /\ r.store = backend /\ r.pairs = {}

\* C13 witness: a Map with an exemplar without KVConstructor has failed on a
\* prefix that has objects but no placeholder, and there is none afterwards
C13_Witness ==
  \E p \in Procs :
    /\ Returning(p, "map") /\ ~exemplar[p].ctor
    /\ err[p] = "ErrNoConstructor"
    /\ karg[p] = Key(<<SegA>>)
    /\ Has(backend, Key(<<SegA, Seg1>>))
    /\ ~Has(backend, karg[p])

\* caller p is inside a put or delete of a non-skip object
NonSkipWrite(p) ==
  /\ pc[p] # "idle"
  /\ op[p] \in {"put", "del"}
  /\ snap.obj # NilObject
  /\ ~snap.obj.skip

\* C14: at every point of a non-skip PutObjectAtomic or DeleteObjectAtomic,
\* mid-operation included, the cache differs from what it was when the call
\* began only if the AtomicPut or AtomicDelete of that call has returned
\* success, and then the cache holds for the key what the backend accepted:
\* the value and version the backend stored, or no entry after a delete.
C14_BackendBeforeCache ==
  \A p \in Procs :
    NonSkipWrite(p) =>
      LET k == Key(snap.obj.key) IN
        /\ snap.storeErr # "nil" => cache = snap.cache
        /\ pc[p] \in {"put", "del", "put_cache", "del_cache"} => cache = snap.cache
        /\ cache # snap.cache =>
             IF op[p] = "put"
               THEN /\ Has(backend, k) /\ Has(cache, k)
                    /\ cache[k].Value = backend[k].Value
                    /\ cache[k].Index = backend[k].LastIndex
             ELSE ~Has(backend, k) /\ ~Has(cache, k)

\* C14 witness: a non-skip delete has removed the key from the cache after
\* its AtomicDelete succeeded
C14_Witness ==
  \E p \in Procs :
    /\ NonSkipWrite(p) /\ Succeeded(p, "del")
    /\ snap.storeErr = "nil"
    /\ Has(snap.cache, Key(snap.obj.key))
    /\ ~Has(cache, Key(snap.obj.key))
    /\ ~Has(backend, Key(snap.obj.key))

\* caller p is returning from a put of a skip object with a Value()
SkipPutReturning(p) ==
  /\ Returning(p, "put")
  /\ snap.obj # NilObject
  /\ snap.obj.content # 0
  /\ snap.obj.skip

\* C15: a PutObjectAtomic of a skip object on a key the cache holds returns
\* ErrKeyModified, changing neither cache nor object, when the object's
\* Index() is not the cached version, and otherwise succeeds with the cached
\* version plus one; on a key the cache does not hold a new object gets
\* version 1; and after every successful skip put the cache holds the
\* object's value at the version stamped on the object.
C15_SkipSequencing ==
  \A p \in Procs :
    SkipPutReturning(p) =>
      LET k == Key(snap.obj.key) IN
        /\ (Has(snap.cache, k) /\ snap.obj.dbIndex # snap.cache[k].Index) =>
             (err[p] = "ErrKeyModified" /\ cache = snap.cache /\ obj[p] = snap.obj)
        /\ (Has(snap.cache, k) /\ snap.obj.dbIndex = snap.cache[k].Index) =>
             (err[p] = "nil" /\ obj[p].dbIndex = snap.cache[k].Index + 1)
        /\ (~Has(snap.cache, k) /\ snap.obj.dbIndex = 0) =>
             (err[p] = "nil" /\ obj[p].dbIndex = 1)
        /\ err[p] \in {"nil", "ErrKeyModified"}
        /\ err[p] = "nil" =>
             /\ Has(cache, k)
             /\ cache[k] = [Value |-> Value(snap.obj), Index |-> obj[p].dbIndex]
             /\ obj[p].dbExists

\* C15 witness: a skip put of new content with the object at the cached
\* version 1 has succeeded and stamped 2
C15_Witness ==
  \E p \in Procs :
    /\ SkipPutReturning(p) /\ err[p] = "nil"
    /\ Has(snap.cache, Key(snap.obj.key))
    /\ snap.cache[Key(snap.obj.key)].Index = 1
    /\ snap.cache[Key(snap.obj.key)].Value # Value(snap.obj)
    /\ obj[p].dbIndex = 2
    /\ cache[Key(snap.obj.key)].Index = 2

\* caller p is returning from a put of a non-skip object with a Value() whose
\* Exists() was false, and the backend round trip did not itself fail
CreateReturning(p) ==
  /\ Returning(p, "put")
  /\ snap.obj # NilObject
  /\ snap.obj.content # 0
  /\ ~snap.obj.skip
  /\ ~snap.obj.dbExists
  /\ snap.storeErr # "ErrBackend"

\* C16: a non-skip PutObjectAtomic of an object whose Exists() is false is a
\* create-if-absent: on a key the backend holds, the backend answers
\* ErrKeyExists (as it does only to a put with no previous token), the call
\* returns ErrKeyModified, and the backend, the cache and the object are as
\* they were; on a key the backend does not hold the call succeeds, the
\* backend stores the object's value and the object carries the version the
\* backend gave it.
C16_CreateIfAbsent ==
  \A p \in Procs :
    CreateReturning(p) =>
      LET k == Key(snap.obj.key) IN
        IF Has(snap.backend, k)
          THEN /\ snap.storeErr = "ErrKeyExists"
               /\ err[p] = "ErrKeyModified"
               /\ backend = snap.backend /\ cache = snap.cache
               /\ obj[p] = snap.obj
        ELSE /\ err[p] = "nil"
             /\ Has(backend, k)
             /\ backend[k].Value = Value(snap.obj)
             /\ obj[p].dbIndex = backend[k].LastIndex
             /\ obj[p].dbExists

\* C16 witness: a put of a new non-skip object on a key the backend holds at
\* version 2 has returned ErrKeyModified
C16_Witness ==
  \E p \in Procs :
    /\ CreateReturning(p)
    /\ Has(snap.backend, Key(snap.obj.key))
    /\ snap.backend[Key(snap.obj.key)].LastIndex = 2
    /\ snap.backend[Key(snap.obj.key)].Value # Value(snap.obj)
    /\ err[p] = "ErrKeyModified"

\* what a scan of backend b under the rendered prefix P yields: for every
\* entry with a value, its trimmed path and the object its value and version
\* describe
MapOfBackend(b, P) ==
  { <<TrimmedPath(b[k].Value[1]),
      [key |-> b[k].Value[1], content |-> b[k].Value[2], dbIndex |-> b[k].LastIndex]>> :
      k \in { x \in DOMAIN b : IsPrefix(P, x) /\ Len(b[x].Value) # 0 } }

\* the key was put, never by a non-skip put, and not deleted since
SkipOnly(k) == hist[k].ver # 0 /\ ~hist[k].deleted /\ ~hist[k].persisted

\* C17: what a successful Map returns is what the backend holds under the
\* prefix, whatever the cache holds; an object only ever put as a skip object
\* is in no Map result, while a GetObject of it and a List of its prefix
\* return it with the content and version last written.
C17_MapBypassesCache ==
  \A p \in Procs :
    /\ Succeeded(p, "map") =>
         /\ { <<kv[1], View(kv[2])>> : kv \in res[p] } = MapOfBackend(backend, karg[p])
         /\ \A kv \in res[p] : ~SkipOnly(Key(kv[2].key))
    /\ (Returning(p, "get") /\ SkipOnly(Key(snap.obj.key))) =>
         /\ err[p] = "nil"
         /\ obj[p].content = hist[Key(snap.obj.key)].content
         /\ obj[p].dbIndex = hist[Key(snap.obj.key)].ver
    /\ (Succeeded(p, "list") /\ karg[p] = Key(KeyPrefix(exemplar[p].key))) =>
         \A k \in EnumKeys :
           (IsPrefix(karg[p], Key(k)) /\ SkipOnly(Key(k))) =>
             \E r \in res[p] :
               View(r) = [key |-> k, content |-> hist[Key(k)].content,
                          dbIndex |-> hist[Key(k)].ver]

\* C17 witness: a Map of prefix a has returned one entry, the persisted a/2,
\* while the cache also holds a/1, put only as a skip object
C17_Witness ==
  \E p \in Procs :
    /\ Succeeded(p, "map")
    /\ karg[p] = Key(<<SegA>>)
    /\ SkipOnly(Key(<<SegA, Seg1>>))
    /\ Has(cache, Key(<<SegA, Seg1>>))
    /\ hist[Key(<<SegA, Seg2>>)].persisted
    /\ Cardinality(res[p]) = 1

\* caller p is returning from a Map with a valid exemplar none of whose
\* backend round trips failed
ScanReturning(p) ==
  /\ Returning(p, "map")
  /\ exemplar[p].ctor
  /\ snap.storeErr # "ErrBackend"

\* backend b holds no object under the rendered prefix P
EmptyPrefix(b, P) == \A k \in DOMAIN b : IsPrefix(P, k) => Len(b[k].Value) = 0

\* C18: a Map whose backend round trips do not fail succeeds; on a prefix
\* with no objects it returns an empty result; afterwards the backend holds
\* the prefix key, with an empty value when the scan created it, and nothing
\* else has changed; when the prefix key was already there the scan writes
\* nothing; and no entry with a zero-length value, the placeholder included,
\* is in the result.
C18_ParentPlaceholder ==
  \A p \in Procs :
    ScanReturning(p) =>
      /\ err[p] = "nil"
      /\ EmptyPrefix(snap.backend, karg[p]) => res[p] = {}
      /\ Has(backend, karg[p])
      /\ cache = snap.cache
      /\ IF Has(snap.backend, karg[p])
           THEN backend = snap.backend
         ELSE /\ DOMAIN backend = DOMAIN snap.backend \cup {karg[p]}
              /\ backend[karg[p]].Value = <<>>
              /\ \A k \in DOMAIN snap.backend : backend[k] = snap.backend[k]
      /\ \A kv \in res[p] :
           /\ kv[1] # SubSeq(karg[p], 1, Len(karg[p]) - 1)
           /\ \E k \in DOMAIN backend :
                /\ Len(backend[k].Value) # 0
                /\ backend[k].Value = Value(kv[2])

\* C18 witness: a Map of prefix a, which had neither objects nor a
\* placeholder while prefix b had both, has returned an empty result and left
\* the placeholder of a behind
C18_Witness ==
  \E p \in Procs :
    /\ ScanReturning(p) /\ err[p] = "nil"
    /\ karg[p] = Key(<<SegA>>)
    /\ ~Has(snap.backend, karg[p])
    /\ EmptyPrefix(snap.backend, karg[p])
    /\ Has(snap.backend, Key(<<SegB>>)) /\ Has(snap.backend, Key(<<SegB, Seg1>>))
    /\ Has(backend, karg[p]) /\ backend[karg[p]].Value = <<>>
    /\ res[p] = {}

\* C19: a GetObject(key, o) looks up the cache by o's own Key(), whatever
\* the key argument: when the cache holds that key the call succeeds and o
\* carries the cached value and index, otherwise it returns ErrKeyNotFound and
\* o is as it was; and at no point of a GetObject or a List has the backend
\* been called or the cache or the backend changed.
C19_ReadThroughCache ==
  \A p \in Procs :
    /\ Returning(p, "get") =>
         LET k == Key(snap.obj.key) IN
           IF Has(snap.cache, k)
             THEN /\ err[p] = "nil"
                  /\ Value(obj[p]) = snap.cache[k].Value
                  /\ obj[p].dbIndex = snap.cache[k].Index
                  /\ obj[p].dbExists
           ELSE err[p] = "ErrKeyNotFound" /\ obj[p] = snap.obj
    /\ (pc[p] # "idle" /\ op[p] \in {"get", "list"}) =>
         /\ snap.storeErr = "none"
         /\ cache = snap.cache /\ backend = snap.backend

\* C19 witness: a GetObject whose key argument names a key the cache does not
\* hold has succeeded, with an object whose own key the cache holds at other
\* content than the object had
C19_Witness ==
  \E p \in Procs :
    /\ Succeeded(p, "get")
    /\ karg[p] # Key(snap.obj.key)
    /\ ~Has(cache, karg[p]) /\ ~Has(backend, karg[p])
    /\ Has(cache, Key(snap.obj.key))
    /\ snap.obj.content # obj[p].content
    /\ obj[p].dbIndex = 1

\* caller p has rendered the key of its object; the segments it rendered
Rendered(p) == pc[p] = "rendered"
Segments(p) == obj[p].key

\* the rendering of segments s: the root chain and s joined by separators,
\* with one separator at the end
RootThenSegments(s) == JoinParts(rootChain \o s) \o <<"/">>

\* no segment of s holds the separator
WellFormed(s) == \A i \in 1..Len(s) : \A j \in 1..Len(s[i]) : s[i][j] # "/"

\* C20 as stated: Key(s) is the root chain followed by the segments of s,
\* each followed by one separator, and for all segment sequences s and t,
\* Key(s) = Key(t) exactly when s = t.
C20_KeysEqualIffSegments ==
  \A p, q \in KeyProcs :
    (Rendered(p) /\ Rendered(q)) =>
      /\ karg[p] = RootThenSegments(Segments(p))
      /\ karg[p] = karg[q] <=> Segments(p) = Segments(q)

\* C20 amended: Key(s) is the root chain followed by the segments of s, each
\* followed by one separator; equal segment sequences render equal keys; and
\* for segment sequences s and t none of whose segments holds the separator,
\* Key(s) = Key(t) exactly when s = t.
C20_KeyRendering ==
  \A p, q \in KeyProcs :
    (Rendered(p) /\ Rendered(q)) =>
      /\ karg[p] = RootThenSegments(Segments(p))
      /\ Segments(p) = Segments(q) => karg[p] = karg[q]
      /\ (WellFormed(Segments(p)) /\ WellFormed(Segments(q))) =>
           (karg[p] = karg[q] <=> Segments(p) = Segments(q))

\* C20 witness: two callers have rendered different keys from two different
\* sequences of separator-free segments of the same total length, one with an
\* empty segment
C20_Witness ==
  /\ Rendered(1) /\ Rendered(2)
  /\ Segments(1) = << <<"a">>, <<>> >>
  /\ Segments(2) = << <<>>, <<"a">> >>
  /\ karg[1] # karg[2]

====
